---------------------------- MODULE Spec2Model ----------------------------
(***************************************************************************)
(* Binary-splitting Chudnovsky computation of pi (main.go): the serial    *)
(* engine binarySplit, the fork-join scheduler parallelBinarySplit, the   *)
(* assembly of pi in big.Float arithmetic and the digit extraction of     *)
(* main.                                                                   *)
(*                                                                         *)
(* TLC's integers are 32 bits wide, so math/big values are carried as     *)
(* sign-and-magnitude numbers over base-256 limbs (exact), and Go's int64 *)
(* as such numbers wrapped to 64 bits.                                     *)
(***************************************************************************)
EXTENDS Integers, Sequences, FiniteSets, TLC

VARIABLES pc, args, out, calls, stack

vars == <<pc, args, out, calls, stack>>

(***************************************************************************)
(* math/big naturals: little-endian sequences of limbs, no high zero limb. *)
(***************************************************************************)
Base == 16 * 16

RECURSIVE TopIdx(_, _)
TopIdx(s, n) == IF n = 0 \/ s[n] # 0 THEN n ELSE TopIdx(s, n - 1)

\* nat.norm: drop the high zero limbs
Trim(s) == SubSeq(s, 1, TopIdx(s, Len(s)))

\* propagate carries (and borrows) of a column vector whose value is >= 0
RECURSIVE Carry(_)
Carry(c) ==
    IF \A k \in 1..Len(c) : c[k] >= 0 /\ c[k] < Base
    THEN Trim(c)
    ELSE LET n == Len(c)
         IN  Carry([k \in 1..(n + 1) |->
                     (IF k <= n THEN c[k] % Base ELSE 0)
                   + (IF k > 1 THEN c[k - 1] \div Base ELSE 0)])

Limb(s, k) == IF k >= 1 /\ k <= Len(s) THEN s[k] ELSE 0

MaxOf(m, n) == IF m >= n THEN m ELSE n
MinOf(m, n) == IF m <= n THEN m ELSE n

NatAdd(x, y) == Carry([k \in 1..MaxOf(Len(x), Len(y)) |-> Limb(x, k) + Limb(y, k)])

\* x - y for x >= y
NatSub(x, y) == Carry([k \in 1..MaxOf(Len(x), Len(y)) |-> Limb(x, k) - Limb(y, k)])

\* -1, 0, 1 as x < y, x = y, x > y
RECURSIVE CmpFrom(_, _, _)
CmpFrom(x, y, k) ==
    IF k = 0 THEN 0
    ELSE IF x[k] # y[k] THEN (IF x[k] < y[k] THEN -1 ELSE 1)
    ELSE CmpFrom(x, y, k - 1)

NatCmp(x, y) ==
    IF Len(x) # Len(y) THEN (IF Len(x) < Len(y) THEN -1 ELSE 1)
    ELSE CmpFrom(x, y, Len(x))

RECURSIVE ColSum(_, _, _, _, _)
ColSum(x, y, k, lo, hi) ==
    IF lo > hi THEN 0
    ELSE IF lo = hi THEN x[lo] * y[k + 1 - lo]
    ELSE LET mid == (lo + hi) \div 2
         IN  ColSum(x, y, k, lo, mid) + ColSum(x, y, k, mid + 1, hi)

NatMul(x, y) ==
    IF Len(x) = 0 \/ Len(y) = 0 THEN << >>
    ELSE Carry([k \in 1..(Len(x) + Len(y) - 1) |->
                 ColSum(x, y, k, MaxOf(1, k + 1 - Len(y)), MinOf(Len(x), k))])

\* a natural below 2^31 as limbs
RECURSIVE NatOf(_)
NatOf(n) == IF n = 0 THEN << >> ELSE <<n % Base>> \o NatOf(n \div Base)

(***************************************************************************)
(* big.Int: sign and magnitude; zero is never negative.                    *)
(***************************************************************************)
Big(neg, mag) == [neg |-> neg /\ Len(mag) > 0, mag |-> mag]

IntOf(n) == IF n < 0 THEN Big(TRUE, NatOf(-n)) ELSE Big(FALSE, NatOf(n))

Zero == IntOf(0)

\* big.Int.Neg
Neg(x) == Big(~x.neg, x.mag)

\* big.Int.Mul
Mul(x, y) == Big(x.neg # y.neg, NatMul(x.mag, y.mag))

\* big.Int.Add
Add(x, y) ==
    IF x.neg = y.neg THEN Big(x.neg, NatAdd(x.mag, y.mag))
    ELSE IF NatCmp(x.mag, y.mag) >= 0 THEN Big(x.neg, NatSub(x.mag, y.mag))
    ELSE Big(y.neg, NatSub(y.mag, x.mag))

Sub(x, y) == Add(x, Neg(y))

\* a decimal numeral, most significant digit first
RECURSIVE FromDigits(_)
FromDigits(ds) ==
    IF Len(ds) = 0 THEN Zero
    ELSE Add(Mul(FromDigits(SubSeq(ds, 1, Len(ds) - 1)), IntOf(10)), IntOf(ds[Len(ds)]))

(***************************************************************************)
(* Go's int64: a big.Int value wrapped to 64 bits, two's complement.       *)
(***************************************************************************)
Two64 == [k \in 1..9 |-> IF k = 9 THEN 1 ELSE 0]

Wrap64(z) ==
    LET m0 == Trim([k \in 1..8 |-> Limb(z.mag, k)])
        m  == IF z.neg /\ Len(m0) > 0 THEN NatSub(Two64, m0) ELSE m0
    IN  IF Limb(m, 8) >= Base \div 2 THEN Big(TRUE, NatSub(Two64, m)) ELSE Big(FALSE, m)

I64Mul(x, y) == Wrap64(Mul(x, y))
I64Add(x, y) == Wrap64(Add(x, y))
I64Sub(x, y) == Wrap64(Sub(x, y))

\* Go's integer division truncates toward zero
GoDiv(x, y) == IF x >= 0 THEN x \div y ELSE -((-x) \div y)

(***************************************************************************)
(* binarySplit (main.go:19-50), exact.                                     *)
(***************************************************************************)
\* main.go:32, the literal 10939058860032000
QCoeff == FromDigits(<<1, 0, 9, 3, 9, 0, 5, 8, 8, 6, 0, 0, 3, 2, 0, 0, 0>>)

splitResult(P, Q, R) == [P |-> P, Q |-> Q, R |-> R]

\* main.go:20-37: the base case for the term index a, an int64
baseCase(a) ==
    LET P0 == Mul(I64Sub(I64Mul(IntOf(6), a), IntOf(1)),
                  I64Sub(I64Mul(IntOf(2), a), IntOf(1)))
        P  == Neg(Mul(P0, I64Sub(I64Mul(IntOf(6), a), IntOf(5))))
        Q  == Mul(Mul(Mul(a, a), a), QCoeff)
        R  == Mul(P, I64Add(I64Mul(IntOf(545140134), a), IntOf(13591409)))
    IN  splitResult(P, Q, R)

\* the right half's R scaled by the right half's own P
combineRightP(l, r) ==
    splitResult(Mul(l.P, r.P), Mul(l.Q, r.Q), Add(Mul(r.Q, l.R), Mul(r.P, r.R)))

\* main.go:43-48
combine(l, r) ==
    splitResult(Mul(l.P, r.P), Mul(l.Q, r.Q), Add(Mul(r.Q, l.R), Mul(l.P, r.R)))

\* main.go:19-50, for a range on which the recursion ends (b > a)
RECURSIVE binarySplit(_, _)
binarySplit(a, b) ==
    IF b = a + 1 THEN baseCase(IntOf(a))
    ELSE LET m == GoDiv(a + b, 2)
         IN  combine(binarySplit(a, m), binarySplit(m, b))

(***************************************************************************)
(* SplitSpec: the serial engine as a function.  A run takes one input,     *)
(* either a term index a for the call binarySplit(a, a+1), or a range      *)
(* [a, b) with a cut point m whose two halves are split and combined.      *)
(***************************************************************************)
MaxTerm == 10

None == << >>

\* main.go:199: the largest term count main derives, (2^63 - 1) / 14 + 100
MaxTermCount == FromDigits(<<6, 5, 8, 8, 1, 2, 2, 8, 8, 3, 4, 6, 7, 6, 9, 8, 0, 0>>)

\* term indices of a run of main at which 545140134*a + 13591409 is last below
\* 2^63, first above it, and the last term of the longest run
LargeTerms ==
    { FromDigits(<<1, 6, 9, 1, 9, 2, 6, 8, 0, 2, 2>>),
      FromDigits(<<1, 6, 9, 1, 9, 2, 6, 8, 0, 2, 3>>),
      Sub(MaxTermCount, IntOf(1)) }

BaseArgs == { [op |-> "base", a |-> a] : a \in {IntOf(k) : k \in 1..MaxTerm} \cup LargeTerms }

RangeArgs ==
    { [op |-> "split", a |-> a, m |-> m, b |-> b] :
        a \in 1..MaxTerm, m \in 1..MaxTerm, b \in 1..MaxTerm }

SplitInit ==
    /\ pc = "call"
    /\ args \in BaseArgs \cup { r \in RangeArgs : r.a < r.m /\ r.m < r.b }
    /\ out = None
    /\ calls = None
    /\ stack = None

\* binarySplit(a, a+1): main.go:20 holds, the base case returns
CallBase ==
    /\ pc = "call"
    /\ args.op = "base"
    /\ out' = baseCase(args.a)
    /\ pc' = "returned"
    /\ UNCHANGED <<args, calls, stack>>

\* binarySplit(a, m) and binarySplit(m, b)
CallHalves ==
    /\ pc = "call"
    /\ args.op = "split"
    /\ out' = [l |-> binarySplit(args.a, args.m), r |-> binarySplit(args.m, args.b)]
    /\ pc' = "halves"
    /\ UNCHANGED <<args, calls, stack>>

\* the combination step applied to the two halves
CombineHalves ==
    /\ pc = "halves"
    /\ out' = combine(out.l, out.r)
    /\ pc' = "returned"
    /\ UNCHANGED <<args, calls, stack>>

SplitNext == CallBase \/ CallHalves \/ CombineHalves

SplitSpec == SplitInit /\ [][SplitNext]_vars

\* the closed form of term a in exact integers
ClosedP(a) ==
    Neg(Mul(Mul(Sub(Mul(IntOf(6), a), IntOf(1)), Sub(Mul(IntOf(2), a), IntOf(1))),
            Sub(Mul(IntOf(6), a), IntOf(5))))

ClosedQ(a) == Mul(QCoeff, Mul(a, Mul(a, a)))

ClosedR(a) == Mul(ClosedP(a), Add(Mul(IntOf(545140134), a), IntOf(13591409)))

\* C5: binarySplit(a, a+1) returns exactly P = -(6a-1)(2a-1)(6a-5),
\* Q = 10939058860032000 a^3 and R = P (545140134 a + 13591409) as
\* mathematical integers, for every term index a >= 1.
C5_BaseCaseExact ==
    (pc = "returned" /\ args.op = "base") =>
        out = splitResult(ClosedP(args.a), ClosedQ(args.a), ClosedR(args.a))

\* the base case has returned for a term index whose factors fit in 64 bits
C5_SmallTermReturned ==
    pc = "returned" /\ args.op = "base" /\ args.a = IntOf(1) /\ out.P = IntOf(-5)

\* C6: combining binarySplit(a, m) and binarySplit(m, b) gives exactly
\* binarySplit(a, b), whatever the cut point a < m < b.
C6_CutPointIndependent ==
    (pc = "returned" /\ args.op = "split") => out = binarySplit(args.a, args.b)

\* [1,10) has been combined from [1,3) and [3,10)
C6_UnevenCutCombined ==
    pc = "returned" /\ args.op = "split" /\ args.a = 1 /\ args.m = 3 /\ args.b = 10

(***************************************************************************)
(* The triples of ranges of a thousand terms and more have tens of         *)
(* thousands of digits.  The scheduler is therefore run on their image in  *)
(* the integers modulo Modulus: big.NewInt, Neg, Mul and Add become the    *)
(* same operations on residues.  The term indices of these runs are below  *)
(* 2^27, where no int64 expression of the base case wraps.                 *)
(***************************************************************************)
Modulus == 46337

Res(n) == n % Modulus

MulMod(x, y) == (x * y) % Modulus

AddMod(x, y) == (x + y) % Modulus

NegMod(x) == (Modulus - x) % Modulus

\* the residue of a big.Int
RECURSIVE NatRes(_, _)
NatRes(s, k) == IF k = 0 THEN 0 ELSE ((NatRes(s, k - 1) * Base) + s[Len(s) + 1 - k]) % Modulus

ResidueOf(x) == IF x.neg THEN NegMod(NatRes(x.mag, Len(x.mag))) ELSE NatRes(x.mag, Len(x.mag))

Image(t) == splitResult(ResidueOf(t.P), ResidueOf(t.Q), ResidueOf(t.R))

QCoeffMod == ResidueOf(QCoeff)

\* main.go:20-37 (and 59-76) on residues
baseCaseMod(a) ==
    LET P0 == MulMod(Res(6 * a - 1), Res(2 * a - 1))
        P  == NegMod(MulMod(P0, Res(6 * a - 5)))
        Q  == MulMod(MulMod(MulMod(Res(a), Res(a)), Res(a)), QCoeffMod)
        R  == MulMod(P, AddMod(MulMod(Res(545140134), Res(a)), Res(13591409)))
    IN  splitResult(P, Q, R)

\* main.go:43-48 on residues
combineMod(l, r) ==
    splitResult(MulMod(l.P, r.P), MulMod(l.Q, r.Q),
                AddMod(MulMod(r.Q, l.R), MulMod(l.P, r.R)))

\* main.go:19-50 on residues
RECURSIVE binarySplitMod(_, _)
binarySplitMod(a, b) ==
    IF b = a + 1 THEN baseCaseMod(a)
    ELSE LET m == GoDiv(a + b, 2)
         IN  combineMod(binarySplitMod(a, m), binarySplitMod(m, b))

\* the residues of the exact triple are the triple computed on residues
ImageCommutes ==
    /\ (pc = "returned" /\ args.op = "split") =>
           Image(out) = binarySplitMod(args.a, args.b)
    /\ (pc = "returned" /\ args.op = "base" /\ args.a \in {IntOf(k) : k \in 1..MaxTerm}) =>
           \E k \in 1..MaxTerm : args.a = IntOf(k) /\ Image(out) = baseCaseMod(k)

(***************************************************************************)
(* parallelBinarySplit (main.go:53-105) as a tree of calls.  A call is     *)
(* named by its path from the call the run starts with; call c's two       *)
(* goroutines run the calls c \o <<1>> and c \o <<2>>.                     *)
(*                                                                         *)
(*   st = "spawned"   the call has not been entered yet                    *)
(*        "waiting"   forked; blocked in wg.Wait()                         *)
(*        "returned"  the call has returned res                            *)
(*        "stored"    its goroutine has assigned the parent's result slot  *)
(*        "done"      its goroutine has run the deferred wg.Done()         *)
(***************************************************************************)
\* main.go:55: b-a < 1000
SizeLimit == 1000

\* main.go:55: depth > 4
DepthLimit == 4

Root == << >>

Left(c) == c \o <<1>>

Right(c) == c \o <<2>>

Parent(c) == SubSeq(c, 1, Len(c) - 1)

Slot(c) == c[Len(c)]

Forked(c) == Left(c) \in DOMAIN calls

\* the depth test off by one
DelegatesLate(a, b, depth) == b - a < SizeLimit \/ depth > DepthLimit + 1

\* main.go:55
Delegates(a, b, depth) == b - a < SizeLimit \/ depth > DepthLimit

\* main.go:78
Midpoint(a, b) == GoDiv(a + b, 2)

\* a barrier counting one goroutine more than the call starts
WgAddThree == 2 + 1

\* main.go:82: wg.Add(2)
WgAdd == 2

\* wg.Wait() returning with one goroutine still counted
WaitReturnsEarly(wg) == wg <= 1

\* main.go:96: wg.Wait() returns
WaitReturns(wg) == wg = 0

\* the two products of R with their operands exchanged
parCombineSwapped(result1, result2) ==
    IF result1 = None \/ result2 = None THEN None
    ELSE splitResult(MulMod(result1.P, result2.P), MulMod(result1.Q, result2.Q),
                     AddMod(MulMod(result1.Q, result2.R), MulMod(result2.P, result1.R)))

\* main.go:98-103; a slot never assigned holds nil pointers
parCombine(result1, result2) ==
    IF result1 = None \/ result2 = None THEN None
    ELSE splitResult(MulMod(result1.P, result2.P), MulMod(result1.Q, result2.Q),
                     AddMod(MulMod(result2.Q, result1.R), MulMod(result1.P, result2.R)))

NewCall(a, b, depth) ==
    [a |-> a, b |-> b, depth |-> depth, st |-> "spawned", wg |-> 0,
     res |-> None, slots |-> <<None, None>>]

(***************************************************************************)
(* ParSpec: one call parallelBinarySplit(a, b, depth) of a run of          *)
(* parallelBinarySplit(1, n, 0), with everything below it.  The calls      *)
(* beside it share no state with it.  The run's n is 1 + w * 2^depth for a *)
(* width w around the size limit and its double, so that the ranges at     *)
(* that depth all have width w, and the call is the leftmost or the        *)
(* rightmost one of its depth.                                             *)
(***************************************************************************)
Slack == 1

Widths ==
    { SizeLimit - 1, SizeLimit, SizeLimit + Slack, 2 * SizeLimit - 1, 2 * SizeLimit }

RECURSIVE Pow2(_)
Pow2(k) == IF k = 0 THEN 1 ELSE 2 * Pow2(k - 1)

\* the call reached from parallelBinarySplit(a, b, depth) along path
RECURSIVE Descend(_, _, _, _)
Descend(a, b, depth, path) ==
    IF path = << >> THEN NewCall(a, b, depth)
    ELSE IF Head(path) = 1 THEN Descend(a, Midpoint(a, b), depth + 1, Tail(path))
    ELSE Descend(Midpoint(a, b), b, depth + 1, Tail(path))

ParArgs ==
    { [n |-> 1 + w * Pow2(k), path |-> [i \in 1..k |-> side]] :
        k \in 0..(DepthLimit + 1), w \in Widths, side \in {1, 2} }

\* main.go:199: n = digitPos/14 + 100
TermCount(digitPos) == GoDiv(digitPos, 14) + 100

\* digit positions whose runs split [1, n) of width 999, 1000 and 1999
FaultDigits == { 14 * (w + 1 - 100) : w \in {SizeLimit - 1, SizeLimit, 2 * SizeLimit - 1} }

\* the ranges that reach the serial engine below parallelBinarySplit(a, b, depth)
RECURSIVE SerialRanges(_, _, _)
SerialRanges(a, b, depth) ==
    IF Delegates(a, b, depth) \/ b <= a + 1 THEN {<<a, b>>}
    ELSE SerialRanges(a, Midpoint(a, b), depth + 1)
             \cup SerialRanges(Midpoint(a, b), b, depth + 1)

\* binarySplit on every range the runs below pass to it, evaluated once
SerialTriples ==
    LET roots == { Descend(1, x.n, 0, x.path) : x \in ParArgs }
                     \cup { NewCall(1, TermCount(d), 0) : d \in FaultDigits }
    IN  { [a |-> r[1], b |-> r[2], t |-> binarySplitMod(r[1], r[2])] :
            r \in UNION { SerialRanges(c.a, c.b, c.depth) : c \in roots } }

\* main.go:56: binarySplit(a, b)
serialSplit(a, b) ==
    IF \E e \in SerialTriples : e.a = a /\ e.b = b
    THEN (CHOOSE e \in SerialTriples : e.a = a /\ e.b = b).t
    ELSE binarySplitMod(a, b)

\* main.go:55-57: a small range or a deep call goes to the serial engine
SerialCall(c) ==
    /\ pc = "parallel"
    /\ c \in DOMAIN calls
    /\ calls[c].st = "spawned"
    /\ Delegates(calls[c].a, calls[c].b, calls[c].depth)
    /\ calls' = [calls EXCEPT ![c].res = serialSplit(calls[c].a, calls[c].b),
                              ![c].st = "returned"]
    /\ UNCHANGED <<pc, args, out, stack>>

\* main.go:59-94: the base case, or wg.Add(2) and the two go statements
ForkCall(c) ==
    /\ pc = "parallel"
    /\ c \in DOMAIN calls
    /\ calls[c].st = "spawned"
    /\ ~Delegates(calls[c].a, calls[c].b, calls[c].depth)
    /\ LET a == calls[c].a
           b == calls[c].b
           m == Midpoint(a, b)
       IN  IF b = a + 1
           THEN calls' = [calls EXCEPT ![c].res = baseCaseMod(a), ![c].st = "returned"]
           ELSE calls' = [k \in DOMAIN calls \cup {Left(c), Right(c)} |->
                            IF k = Left(c) THEN NewCall(a, m, calls[c].depth + 1)
                            ELSE IF k = Right(c) THEN NewCall(m, b, calls[c].depth + 1)
                            ELSE IF k = c THEN [calls[c] EXCEPT !.wg = WgAdd, !.st = "waiting"]
                            ELSE calls[k]]
    /\ UNCHANGED <<pc, args, out, stack>>

\* main.go:88, 93: the goroutine assigns its call's triple to its result slot
StoreResult(c) ==
    /\ pc = "parallel"
    /\ c \in DOMAIN calls
    /\ c # Root
    /\ calls[c].st = "returned"
    /\ calls' = [calls EXCEPT ![Parent(c)].slots[Slot(c)] = calls[c].res,
                              ![c].st = "stored"]
    /\ UNCHANGED <<pc, args, out, stack>>

\* main.go:87, 92: the deferred wg.Done()
Done(c) ==
    /\ pc = "parallel"
    /\ c \in DOMAIN calls
    /\ calls[c].st = "stored"
    /\ calls' = [calls EXCEPT ![Parent(c)].wg = @ - 1, ![c].st = "done"]
    /\ UNCHANGED <<pc, args, out, stack>>

\* main.go:96-104: wg.Wait() returns and the parent combines the two slots
Join(c) ==
    /\ pc = "parallel"
    /\ c \in DOMAIN calls
    /\ calls[c].st = "waiting"
    /\ WaitReturns(calls[c].wg)
    /\ calls' = [calls EXCEPT ![c].res = parCombine(calls[c].slots[1], calls[c].slots[2]),
                              ![c].st = "returned"]
    /\ UNCHANGED <<pc, args, out, stack>>

ParInit ==
    /\ pc = "parallel"
    /\ args \in ParArgs
    /\ calls = [c \in {Root} |-> Descend(1, args.n, 0, args.path)]
    /\ out = None
    /\ stack = None

ParNext ==
    \/ \E c \in DOMAIN calls : SerialCall(c)
    \/ \E c \in DOMAIN calls : ForkCall(c)
    \/ \E c \in DOMAIN calls : StoreResult(c)
    \/ \E c \in DOMAIN calls : Done(c)
    \/ \E c \in DOMAIN calls : Join(c)

ParSpec == ParInit /\ [][ParNext]_vars

\* C1: parallelBinarySplit(a, b, depth) returns the triple of binarySplit(a, b),
\* whatever the order in which its goroutines ran and finished.
C1_ParallelEqualsSerial ==
    calls[Root].st = "returned" =>
        calls[Root].res = binarySplitMod(calls[Root].a, calls[Root].b)

\* a call forked, its children forked again, and it has returned
C1_NestedForkReturned ==
    /\ calls[Root].st = "returned"
    /\ Left(Left(Root)) \in DOMAIN calls
    /\ Right(Right(Root)) \in DOMAIN calls

Children(c) == {Left(c), Right(c)}

\* C8: a parent combines only after both of its goroutines have stored their
\* triples and signalled completion, and each goroutine writes its own slot only.
C8_JoinBarrier ==
    \A c \in DOMAIN calls :
        Forked(c) =>
            /\ calls[c].st = "returned" =>
                   \A k \in Children(c) : calls[k].st = "done"
            /\ \A k \in Children(c) :
                   calls[c].slots[Slot(k)] =
                       IF calls[k].st \in {"stored", "done"} THEN calls[k].res ELSE None

\* a parent has combined after its second goroutine finished first
C8_JoinedAfterBoth ==
    /\ Forked(Root)
    /\ calls[Root].st = "returned"
    /\ calls[Root].res # None
    /\ Forked(Left(Root))

\* C9: a call spawns goroutines only when b - a >= 1000 and depth <= 4 and goes
\* to the serial engine otherwise; so below a call of depth 0 no call has a
\* depth above 5 and at most 62 goroutines are spawned (2^(6-k) - 2 below a
\* call of depth k).
C9_BoundedFanOut ==
    /\ \A c \in DOMAIN calls :
          /\ Forked(c) => (calls[c].b - calls[c].a >= 1000 /\ calls[c].depth <= 4)
          /\ (~Forked(c) /\ calls[c].st # "spawned") =>
                 (calls[c].b - calls[c].a < 1000 \/ calls[c].depth > 4)
          /\ calls[c].depth <= 5
    /\ Cardinality(DOMAIN calls) - 1 <= Pow2(6 - calls[Root].depth) - 2

\* a call of depth 4 has forked, and its children of depth 5, a thousand terms
\* wide, went to the serial engine
C9_DepthBoundaryReached ==
    /\ calls[Root].depth = 4
    /\ Forked(Root)
    /\ \A k \in Children(Root) :
          /\ calls[k].depth = 5
          /\ calls[k].b - calls[k].a >= 1000
          /\ calls[k].st = "done"
          /\ ~Forked(k)

\* the Go scheduler runs every runnable goroutine
ParLiveSpec == ParSpec /\ WF_vars(ParNext)

\* call c, or the goroutine running it, has a step to take
Runnable(c) ==
    \/ calls[c].st = "spawned"
    \/ calls[c].st = "waiting" /\ WaitReturns(calls[c].wg)
    \/ calls[c].st \in {"returned", "stored"} /\ c # Root

AllReturned ==
    /\ calls[Root].st = "returned"
    /\ \A c \in DOMAIN calls :
          /\ calls[c].wg = 0
          /\ c # Root => calls[c].st = "done"

\* C10: the call returns: every call below it is on a strictly smaller
\* non-empty range with a < m < b, every goroutine signals completion once,
\* every wg.Wait() returns and the run never blocks before the call returned.
C10_Terminates ==
    /\ [](\A c \in DOMAIN calls :
            /\ calls[c].wg >= 0
            /\ calls[c].b - calls[c].a >= 2 =>
                   (calls[c].a < Midpoint(calls[c].a, calls[c].b)
                      /\ Midpoint(calls[c].a, calls[c].b) < calls[c].b)
            /\ c # Root =>
                   /\ calls[c].a < calls[c].b
                   /\ calls[Parent(c)].a <= calls[c].a
                   /\ calls[c].b <= calls[Parent(c)].b
                   /\ calls[c].b - calls[c].a < calls[Parent(c)].b - calls[Parent(c)].a)
    /\ [](calls[Root].st # "returned" => \E c \in DOMAIN calls : Runnable(c))
    /\ <>[]AllReturned

\* a run with four goroutines has come to its end
C10_AllGoroutinesDone ==
    /\ AllReturned
    /\ Cardinality(DOMAIN calls) >= 5

(***************************************************************************)
(* FaultSpec: main (main.go:184-238) around the scheduler, with a failure  *)
(* (a panic) possible in whatever a call is computing.  The call           *)
(* parallelBinarySplit(1, n, 0) runs on main's goroutine, inside the       *)
(* function literal whose deferred function calls recover(); every other   *)
(* call runs on a goroutine of its own, which defers wg.Done() only.  A    *)
(* panic that no deferred function of its own goroutine recovers ends the  *)
(* process.                                                                *)
(***************************************************************************)
FaultInit ==
    /\ pc = "main"
    /\ \E d \in FaultDigits : args = [digitPos |-> d, n |-> TermCount(d)]
    /\ calls = None
    /\ out = [failed |-> {}, recovers |-> 0, via |-> "none", triple |-> None]
    /\ stack = None

\* main.go:221, 166, 158: parallelBinarySplit(1, n, 0) is called
MainStart ==
    /\ pc = "main"
    /\ calls' = [c \in {Root} |-> NewCall(1, args.n, 0)]
    /\ pc' = "parallel"
    /\ UNCHANGED <<args, out, stack>>

\* call c is executing code of its own
Executing(c) ==
    \/ calls[c].st = "spawned"
    \/ calls[c].st = "waiting" /\ WaitReturns(calls[c].wg)

\* a panic in call c: main's deferred function sees it only on main's goroutine
Panic(c) ==
    /\ pc = "parallel"
    /\ c \in DOMAIN calls
    /\ Executing(c)
    /\ out' = [out EXCEPT !.failed = {c}]
    /\ pc' = IF c = Root THEN "recovering" ELSE "crashed"
    /\ UNCHANGED <<args, calls, stack>>

\* main.go:211-217: recover() returns the panic, chudnovsky(n, digits) runs
Fallback ==
    /\ pc = "recovering"
    /\ out' = [out EXCEPT !.recovers = @ + 1, !.via = "serial",
                          !.triple = serialSplit(1, args.n)]
    /\ pc' = "extract"
    /\ UNCHANGED <<args, calls, stack>>

\* main.go:215: a panic in the fallback has no recover above it
FallbackPanic ==
    /\ pc = "recovering"
    /\ pc' = "crashed"
    /\ UNCHANGED <<args, out, calls, stack>>

\* main.go:221-223: the parallel path returned
ParallelReturns ==
    /\ pc = "parallel"
    /\ calls[Root].st = "returned"
    /\ out' = [out EXCEPT !.via = "parallel", !.triple = calls[Root].res]
    /\ pc' = "extract"
    /\ UNCHANGED <<args, calls, stack>>

\* main.go:228-238: the digit is extracted and printed
Report ==
    /\ pc = "extract"
    /\ pc' = "reported"
    /\ UNCHANGED <<args, out, calls, stack>>

FaultNext ==
    \/ MainStart
    \/ ParNext
    \/ \E c \in DOMAIN calls : Panic(c)
    \/ Fallback
    \/ FallbackPanic
    \/ ParallelReturns
    \/ Report

FaultSpec == FaultInit /\ [][FaultNext]_vars

\* C3: a failure inside a goroutine spawned by parallelBinarySplit reaches
\* main's recover, exactly once, and the run recomputes the result serially
\* and reports a digit; the process never ends with the failure uncaught.
C3_BranchFailureRecovered ==
    (\E c \in out.failed : c # Root) =>
        /\ pc \in {"recovering", "extract", "reported"}
        /\ pc \in {"extract", "reported"} =>
               (out.recovers = 1 /\ out.via = "serial"
                   /\ out.triple = binarySplitMod(1, args.n))

\* a failure on main's goroutine was recovered and the digit reported
C3_RootFailureRecovered ==
    /\ pc = "reported"
    /\ out.failed = {Root}
    /\ out.recovers = 1
    /\ out.via = "serial"

(***************************************************************************)
(* RangeSpec: binarySplit (main.go:19-50) step by step, with its call      *)
(* stack, on any range, the ranges with b <= a or a < 1 included.  A frame *)
(* is at "entry" (main.go:20), in its first call (main.go:40) or in its    *)
(* second (main.go:41); out holds the triple the last call returned.       *)
(* The stack is cut at MaxStack frames, where the model stops.             *)
(***************************************************************************)
MaxStack == 6

MaxIndex == 5

MinIndex == 2 - MaxIndex

\* digit positions that are not positive, and the range [1, n) main derives
NonPositiveDigits == {-1400, -1386, -1372}

RangeArgs2 ==
    { [a |-> a, b |-> b] : a \in MinIndex..MaxIndex, b \in MinIndex..MaxIndex }
        \cup { [a |-> 1, b |-> TermCount(d)] : d \in NonPositiveDigits }

Frame(a, b) == [a |-> a, b |-> b, at |-> "entry", left |-> None]

Top == stack[Len(stack)]

Pop == SubSeq(stack, 1, Len(stack) - 1)

RangeInit ==
    /\ pc = "call"
    /\ args \in RangeArgs2
    /\ stack = <<Frame(args.a, args.b)>>
    /\ out = None
    /\ calls = None

\* main.go:20-37
ReturnBase ==
    /\ pc = "call"
    /\ Top.at = "entry"
    /\ Top.b = Top.a + 1
    /\ out' = baseCase(IntOf(Top.a))
    /\ stack' = Pop
    /\ pc' = IF Len(stack) = 1 THEN "returned" ELSE "call"
    /\ UNCHANGED <<args, calls>>

\* main.go:39-40
CallLeft ==
    /\ pc = "call"
    /\ Top.at = "entry"
    /\ Top.b # Top.a + 1
    /\ Len(stack) < MaxStack
    /\ stack' = [stack EXCEPT ![Len(stack)].at = "left"]
                    \o <<Frame(Top.a, GoDiv(Top.a + Top.b, 2))>>
    /\ out' = None
    /\ UNCHANGED <<pc, args, calls>>

\* main.go:40-41: the first call returned
CallRight ==
    /\ pc = "call"
    /\ Top.at = "left"
    /\ out # None
    /\ stack' = [stack EXCEPT ![Len(stack)].at = "right", ![Len(stack)].left = out]
                    \o <<Frame(GoDiv(Top.a + Top.b, 2), Top.b)>>
    /\ out' = None
    /\ UNCHANGED <<pc, args, calls>>

\* main.go:41-49: the second call returned
ReturnCombined ==
    /\ pc = "call"
    /\ Top.at = "right"
    /\ out # None
    /\ out' = combine(Top.left, out)
    /\ stack' = Pop
    /\ pc' = IF Len(stack) = 1 THEN "returned" ELSE "call"
    /\ UNCHANGED <<args, calls>>

RangeNext == ReturnBase \/ CallLeft \/ CallRight \/ ReturnCombined

RangeSpec == RangeInit /\ [][RangeNext]_vars

InvalidRange(a, b) == b <= a \/ a < 1

\* C4: a call of binarySplit with b <= a or a < 1 is rejected before any
\* recursion starts: it makes no recursive call and returns no triple.
C4_InvalidRangeRejected ==
    InvalidRange(args.a, args.b) => (Len(stack) <= 1 /\ pc # "returned")

\* the recursion on a valid range returns the triple of the range
RangeReturnsSplit ==
    (pc = "returned" /\ ~InvalidRange(args.a, args.b)) =>
        out = binarySplit(args.a, args.b)

(***************************************************************************)
(* big.Float: sign, mantissa, binary exponent and precision; the value is  *)
(* mant * 2^exp.  An operation rounds its exact result to the precision of *)
(* its receiver, to nearest, ties to even (big.ToNearestEven, the mode of  *)
(* every Float of main.go).                                                *)
(***************************************************************************)
BitLenLimb(v) == CHOOSE k \in 0..8 : Pow2(k) > v /\ (k = 0 \/ Pow2(k - 1) <= v)

BitLen(s) == IF Len(s) = 0 THEN 0 ELSE 8 * (Len(s) - 1) + BitLenLimb(s[Len(s)])

\* s * 2^k
Shl(s, k) ==
    LET q == k \div 8
        f == Pow2(k % 8)
    IN  Carry([i \in 1..(Len(s) + q) |-> IF i <= q THEN 0 ELSE s[i - q] * f])

\* s \div 2^k
Shr(s, k) ==
    LET q == k \div 8
        f == Pow2(k % 8)
        g == Pow2(8 - (k % 8))
        n == Len(s) - q
    IN  IF n <= 0 THEN << >>
        ELSE Trim([i \in 1..n |-> (s[i + q] \div f) + (Limb(s, i + q + 1) % f) * g])

\* bit i of s, bit 0 the lowest
Bit(s, i) == (Limb(s, i \div 8 + 1) \div Pow2(i % 8)) % 2

\* the k low bits of s are zero
LowZero(s, k) ==
    /\ \A i \in 1..(k \div 8) : Limb(s, i) = 0
    /\ Limb(s, k \div 8 + 1) % Pow2(k % 8) = 0

\* 2 * s + bit
Twice(s, bit) ==
    Carry([i \in 1..MaxOf(Len(s), 1) |-> 2 * Limb(s, i) + (IF i = 1 THEN bit ELSE 0)])

\* m \div 2^s rounded to nearest, ties to even
RoundShift(m, s) ==
    IF s <= 0 THEN m
    ELSE LET q  == Shr(m, s)
             up == Bit(m, s - 1) = 1 /\ (~LowZero(m, s - 1) \/ Bit(q, 0) = 1)
         IN  IF up THEN NatAdd(q, <<1>>) ELSE q

Float(neg, mant, exp, prec) ==
    [neg |-> neg /\ Len(mant) > 0, mant |-> mant, exp |-> exp, prec |-> prec]

\* the exact value mant * 2^exp rounded to prec bits
Rounded(neg, mant, exp, prec) ==
    LET s == MaxOf(BitLen(mant) - prec, 0)
    IN  Float(neg, RoundShift(mant, s), exp + s, prec)

\* new(big.Float).SetPrec(prec).SetInt64(v)
FSetInt64(v, prec) == Rounded(v < 0, IntOf(v).mag, 0, prec)

\* new(big.Float).SetInt(x): the precision becomes max(x.BitLen(), 64)
FSetInt(x) == Float(x.neg, x.mag, 0, MaxOf(BitLen(x.mag), 64))

\* z.Mul(x, y) for z of precision prec
FMul(x, y, prec) == Rounded(x.neg # y.neg, NatMul(x.mant, y.mant), x.exp + y.exp, prec)

\* one step of the long division of N by D: bit st.i of N comes down
DivStep(st, D, N) ==
    LET r2 == Twice(st.r, Bit(N, st.i))
        ge == NatCmp(r2, D) >= 0
    IN  [q |-> Twice(st.q, IF ge THEN 1 ELSE 0),
         r |-> IF ge THEN NatSub(r2, D) ELSE r2,
         i |-> st.i - 1]

\* the steps for the bits st.i down to lo
RECURSIVE DivLoop(_, _, _, _)
DivLoop(st, D, N, lo) ==
    IF st.i < lo THEN st
    ELSE IF st.i = lo THEN DivStep(st, D, N)
    ELSE DivLoop(DivLoop(st, D, N, (st.i + lo + 1) \div 2), D, N, lo)

\* quotient q and remainder r of N by D > 0
NatDivMod(N, D) ==
    LET t == MaxOf(BitLen(N) - BitLen(D) + 1, 0)
    IN  DivLoop([q |-> << >>, r |-> Shr(N, t), i |-> t - 1], D, N, 0)

\* z.Quo(x, y) for z of precision prec
FQuo(x, y, prec) ==
    LET k  == MaxOf(prec + 2 + BitLen(y.mant) - BitLen(x.mant), 0)
        dm == NatDivMod(Shl(x.mant, k), y.mant)
    IN  Rounded(x.neg # y.neg, Twice(dm.q, IF Len(dm.r) > 0 THEN 1 ELSE 0),
                x.exp - y.exp - k - 1, prec)

\* one step of the integer square root of N: the bit pair st.i comes down
SqrtStep(st, N) ==
    LET r4   == NatAdd(Shl(st.r, 2), NatOf(2 * Bit(N, 2 * st.i + 1) + Bit(N, 2 * st.i)))
        cand == Twice(Twice(st.s, 0), 1)
        ge   == NatCmp(r4, cand) >= 0
    IN  [s |-> Twice(st.s, IF ge THEN 1 ELSE 0),
         r |-> IF ge THEN NatSub(r4, cand) ELSE r4,
         i |-> st.i - 1]

\* the steps for the bit pairs st.i down to lo
RECURSIVE SqrtLoop(_, _, _)
SqrtLoop(st, N, lo) ==
    IF st.i < lo THEN st
    ELSE IF st.i = lo THEN SqrtStep(st, N)
    ELSE SqrtLoop(SqrtLoop(st, N, (st.i + lo + 1) \div 2), N, lo)

\* root s and remainder r = N - s*s of N
NatSqrt(N) ==
    SqrtLoop([s |-> << >>, r |-> << >>, i |-> (BitLen(N) + 1) \div 2 - 1], N, 0)

\* z.Sqrt(x) for x >= 0 and z of precision prec
FSqrt(x, prec) ==
    LET k0 == MaxOf(2 * (prec + 2) - BitLen(x.mant), 0)
        k  == k0 + ((x.exp - k0) % 2)
        sr == NatSqrt(Shl(x.mant, k))
    IN  Rounded(FALSE, Twice(sr.s, IF Len(sr.r) > 0 THEN 1 ELSE 0),
                (x.exp - k) \div 2 - 1, prec)

\* x.Int(nil): the integer part, truncated toward zero
FInt(x) == Big(x.neg, IF x.exp >= 0 THEN Shl(x.mant, x.exp) ELSE Shr(x.mant, -x.exp))

\* quotient and remainder of s by a small v, from the high limb down
RECURSIVE DivSmall(_, _, _)
DivSmall(s, v, k) ==
    IF k > Len(s) THEN [q |-> << >>, r |-> 0]
    ELSE LET hi  == DivSmall(s, v, k + 1)
             cur == hi.r * Base + s[k]
         IN  [q |-> <<cur \div v>> \o hi.q, r |-> cur % v]

\* the decimal digits of s, most significant first (none for zero)
RECURSIVE Decimal(_)
Decimal(s) ==
    IF Len(s) = 0 THEN << >>
    ELSE LET d == DivSmall(s, 10, 1) IN Decimal(Trim(d.q)) \o <<d.r>>

\* big.Int.Exp(x, y, nil) for y >= 0
RECURSIVE Exp(_, _)
Exp(x, y) ==
    IF y = 0 THEN IntOf(1)
    ELSE IF y % 2 = 0 THEN LET h == Exp(x, y \div 2) IN Mul(h, h)
    ELSE Mul(x, Exp(x, y - 1))

DigitChar(v) == <<"0", "1", "2", "3", "4", "5", "6", "7", "8", "9">>[v + 1]

\* x.String() for a big.Int x >= 0
String(x) ==
    IF Len(x.mag) = 0 THEN <<"0">>
    ELSE LET ds == Decimal(x.mag) IN [i \in 1..Len(ds) |-> DigitChar(ds[i])]

\* x.Text('f', n) for x >= 0: n digits after the point, the last one rounded
\* to nearest, ties to even
Text(x, n) ==
    LET scaled == NatMul(x.mant, Exp(IntOf(10), n).mag)
        t      == IF x.exp >= 0 THEN Shl(scaled, x.exp) ELSE RoundShift(scaled, -x.exp)
        ds     == Decimal(t)
        pad    == MaxOf(n + 1 - Len(ds), 0)
        all    == [i \in 1..(Len(ds) + pad) |-> IF i <= pad THEN "0" ELSE DigitChar(ds[i - pad])]
        ip     == Len(all) - n
    IN  [i \in 1..(Len(all) + 1) |->
            IF i <= ip THEN all[i] ELSE IF i = ip + 1 THEN "." ELSE all[i - 1]]

\* the Go slice s[i:j]
Slice(s, i, j) == SubSeq(s, i + 1, j)

(***************************************************************************)
(* DigitSpec: main from the flag to the printed lines, one statement group *)
(* per step, with exact big.Int and big.Float values.  The requested       *)
(* positions give term counts below the fork threshold, so                 *)
(* workerPoolBinarySplit(1, n) is parallelBinarySplit(1, n, 0) delegating  *)
(* to binarySplit(1, n).                                                   *)
(***************************************************************************)
MaxDigit == 6

ContextLimit == 100000

ContextDefault == 50

DigitArgs == (1..MaxDigit) \cup {ContextDefault - 1, ContextDefault, ContextDefault + 1}

\* the lines main has printed: the digit and, if any, the context window
NoOutput == [digit |-> None, window |-> None]

\* the locals of main and of optimizedParallelChudnovsky
NoLocals ==
    [Q |-> None, R |-> None, sqrt10005 |-> None, coeff |-> None, num |-> None,
     den |-> None, pi |-> None, shifted |-> None, digit |-> None,
     contextDigits |-> 0, piStr |-> None]

DigitInit ==
    /\ pc = "flags"
    /\ args \in { [digitPos |-> d, digits |-> 0, n |-> 0] : d \in DigitArgs }
    /\ out = NoOutput
    /\ calls = NoLocals
    /\ stack = << >>

\* digits := uint(*digitPos + 100); n := int64((*digitPos / 14) + 100)
Precision ==
    /\ pc = "flags"
    /\ args' = [args EXCEPT !.digits = args.digitPos + 100,
                            !.n = TermCount(args.digitPos)]
    /\ pc' = "split"
    /\ UNCHANGED <<out, calls, stack>>

\* _, Q, R := workerPoolBinarySplit(1, n, numWorkers)
Split ==
    /\ pc = "split"
    /\ Delegates(1, args.n, 0)
    /\ LET t == binarySplit(1, args.n)
       IN  calls' = [calls EXCEPT !.Q = t.Q, !.R = t.R]
    /\ pc' = "sqrt"
    /\ UNCHANGED <<args, out, stack>>

PrecBits == args.digits * 4

\* sqrt10005 := SetInt64(10005); sqrt10005.Sqrt(sqrt10005)
Sqrt ==
    /\ pc = "sqrt"
    /\ calls' = [calls EXCEPT !.sqrt10005 = FSqrt(FSetInt64(10005, PrecBits), PrecBits)]
    /\ pc' = "coeff"
    /\ UNCHANGED <<args, out, stack>>

\* coeff := SetInt64(426880); coeff.Mul(coeff, sqrt10005)
Coeff ==
    /\ pc = "coeff"
    /\ calls' = [calls EXCEPT
                   !.coeff = FMul(FSetInt64(426880, PrecBits), calls.sqrt10005, PrecBits)]
    /\ pc' = "num"
    /\ UNCHANGED <<args, out, stack>>

\* num := coeff * Q
Num ==
    /\ pc = "num"
    /\ calls' = [calls EXCEPT !.num = FMul(calls.coeff, FSetInt(calls.Q), PrecBits)]
    /\ pc' = "den"
    /\ UNCHANGED <<args, out, stack>>

\* den := 13591409 * Q + R
Den ==
    /\ pc = "den"
    /\ calls' = [calls EXCEPT !.den = Add(Mul(IntOf(13591409), calls.Q), calls.R)]
    /\ pc' = "quo"
    /\ UNCHANGED <<args, out, stack>>

\* pi = num / den
Quo ==
    /\ pc = "quo"
    /\ calls' = [calls EXCEPT !.pi = FQuo(calls.num, FSetInt(calls.den), PrecBits)]
    /\ pc' = "shift"
    /\ UNCHANGED <<args, out, stack>>

\* shifter := 10^(digitPos-1); shifted := pi * shifter at pi's precision
Shift ==
    /\ pc = "shift"
    /\ LET shifter == Exp(IntOf(10), args.digitPos - 1)
       IN  calls' = [calls EXCEPT
                       !.shifted = FMul(calls.pi, FSetInt(shifter), calls.pi.prec)]
    /\ pc' = "digit"
    /\ UNCHANGED <<args, out, stack>>

\* intPart := shifted.Int(nil); digit := intPart mod 10; the digit is printed
Digit ==
    /\ pc = "digit"
    /\ LET intPart == FInt(calls.shifted)
           digit   == NatOf(DivSmall(intPart.mag, 10, 1).r)
       IN  /\ calls' = [calls EXCEPT !.digit = digit]
           /\ out' = [out EXCEPT !.digit = String(Big(FALSE, digit))]
    /\ pc' = "context"
    /\ UNCHANGED <<args, stack>>

\* if *digitPos <= 100000 { contextDigits := 50, or digitPos + 10 below 50
Context ==
    /\ pc = "context"
    /\ IF args.digitPos <= ContextLimit
       THEN /\ calls' = [calls EXCEPT
                           !.contextDigits = IF args.digitPos < ContextDefault
                                             THEN args.digitPos + 10
                                             ELSE ContextDefault]
            /\ pc' = "text"
       ELSE /\ pc' = "done"
            /\ UNCHANGED calls
    /\ UNCHANGED <<args, out, stack>>

\* piStr := pi.Text('f', contextDigits)
Format ==
    /\ pc = "text"
    /\ calls' = [calls EXCEPT !.piStr = Text(calls.pi, calls.contextDigits)]
    /\ pc' = "window"
    /\ UNCHANGED <<args, out, stack>>

\* if len(piStr) > *digitPos+1 { ... fmt.Printf("Context: ...%s[%s]%s...\n", ...) }
Window ==
    /\ pc = "window"
    /\ LET piStr == calls.piStr
           d     == args.digitPos
       IN  IF Len(piStr) > d + 1
           THEN LET contextStart == IF d - 5 < 0 THEN 0 ELSE d - 5
                    contextEnd   == IF d + 6 > Len(piStr) - 2 THEN Len(piStr) - 2 ELSE d + 6
                IN  out' = [out EXCEPT !.window =
                              [left  |-> Slice(piStr, contextStart + 1, d + 1),
                               mid   |-> String(Big(FALSE, calls.digit)),
                               right |-> Slice(piStr, d + 2, contextEnd + 2)]]
           ELSE UNCHANGED out
    /\ pc' = "done"
    /\ UNCHANGED <<args, calls, stack>>

DigitNext ==
    \/ Precision
    \/ Split
    \/ Sqrt
    \/ Coeff
    \/ Num
    \/ Den
    \/ Quo
    \/ Shift
    \/ Digit
    \/ Context
    \/ Format
    \/ Window

DigitSpec == DigitInit /\ [][DigitNext]_vars

\* the decimal expansion of pi after the point
PiDecimals ==
    <<1, 4, 1, 5, 9, 2, 6, 5, 3, 5, 8, 9, 7, 9, 3, 2, 3, 8, 4, 6,
      2, 6, 4, 3, 3, 8, 3, 2, 7, 9, 5, 0, 2, 8, 8, 4, 1, 9, 7, 1,
      6, 9, 3, 9, 9, 3, 7, 5, 1, 0, 5, 8, 2, 0, 9, 7, 4, 9, 4, 4,
      5, 9, 2, 3, 0, 7, 8, 1, 6, 4>>

\* the decimals from position lo to position hi, as characters
Decimals(lo, hi) == [i \in 1..(hi - lo + 1) |-> DigitChar(PiDecimals[lo + i - 1])]

\* The value main divides out is pi to far more places than it prints: the
\* formatted string, where there is one, is "3." followed by the decimals
\* of pi, up to the rounding of the last place and its carry.
PiStrIsPi ==
    calls.piStr # None =>
        /\ Slice(calls.piStr, 0, 2) = <<"3", ".">>
        /\ Slice(calls.piStr, 2, Len(calls.piStr) - 2)
             = Decimals(1, calls.contextDigits - 2)

\* C2: the digit printed for position d is the d-th digit of pi after the
\* decimal point, the integer part 3 not counted (1 for d = 1, 9 for d = 5,
\* 2 for d = 6).
C2_DigitAfterPoint ==
    out.digit # None => out.digit = <<DigitChar(PiDecimals[args.digitPos])>>

\* What main prints instead: the digit in the units place of
\* pi * 10^(d-1), which counts the integer part 3 as position 1.
DigitCountsIntegerPart ==
    out.digit # None =>
        out.digit = IF args.digitPos = 1 THEN <<"3">>
                    ELSE <<DigitChar(PiDecimals[args.digitPos - 1])>>

\* C7: for every position d from 1 to 100000 main prints, besides the
\* digit, a window of the decimals around position d, up to 5 on each side
\* and clipped at the start of the expansion; above 100000 it prints none.
C7_ContextWindow ==
    pc = "done" =>
        IF args.digitPos <= ContextLimit
        THEN /\ out.window # None
             /\ out.window.left = Decimals(MaxOf(args.digitPos - 5, 1), args.digitPos - 1)
             /\ Len(out.window.right) <= 5
        ELSE out.window = None

\* What main prints: a window only when the formatted string reaches past
\* position d, which it does for d up to 50 and never above.
WindowOnlyUpToDefault ==
    pc = "done" => (out.window # None <=> args.digitPos <= ContextDefault)

=============================================================================
